---- MODULE Spec2Model ----
(***************************************************************************)
(* Model of the paragraph block tool of editor-js-paragraph-extended.      *)
(*                                                                         *)
(* Two variants of the block live in the repository:                       *)
(*   "ex"  - ParagraphEx, src/src/index.js   (menu-config settings)        *)
(*   "dom" - Paragraph,   src/unnamed/part_000 (DOM-button settings)       *)
(*                                                                         *)
(* A JavaScript object is a function from the keys it owns to values; a    *)
(* key that is absent reads as Undefined.  A string that holds markup is a *)
(* sequence of tokens; the empty sequence is the empty string.             *)
(***************************************************************************)
EXTENDS Integers, Sequences, FiniteSets, TLC

VARIABLES
    variant,    \* which class the blocks are instances of
    blocks,     \* the set of constructed block instances
    config,     \* params.config, the tool configuration given by the host
    readOnly,   \* params.readOnly
    hostData,   \* the object the host passed as params.data
    ownData,    \* per block: the last object literal the block itself created
    ref,        \* per block: whether this._data is the host's object or its own
    innerHTML,  \* per block: this._element.innerHTML
    classList,  \* per block: this._element.classList
    settings,   \* per block: the controls handed out by renderSettings()
    lastOp      \* the operation that produced the state, and what it returned

vars == <<variant, blocks, config, readOnly, hostData, ownData, ref,
          innerHTML, classList, settings, lastOp>>

----------------------------------------------------------------------------
(* Bounds *)

MaxLen == 2

----------------------------------------------------------------------------
(* Values *)

Undefined == "undefined"

Alignments == {"left", "center", "right", "justify"}

DEFAULT_ALIGNMENT == "left"

\* tokens of the text of saved data handed to validate
SavedTokens == {"a", " "}

SeqsUpTo(S, n) == UNION {[1..k -> S] : k \in 0..n}

\* markup the browser leaves after an edit, and markup of a pasted element
EditedMarkups == SeqsUpTo({"a", "<br>"}, MaxLen)

\* text of the data the host constructs a block from or merges into it
Strings == SeqsUpTo({"a", "&"}, MaxLen)

\* the same for the two blocks of SpecShared, which differ in alignment
SharedMarkups == SeqsUpTo({"a"}, MaxLen - 1)

SharedStrings == SeqsUpTo({"&"}, MaxLen - 1)

\* text of the saved data the host validates
SavedTexts == SeqsUpTo(SavedTokens, MaxLen)

\* data.alignment when the host supplies one: a known value, an unknown one
HostAlignments == {"right", "start"}

\* inline text-align of a pasted element: '' when the element has none
TextAligns == {"", "right", "start"}

KeyCodes == {"Backspace", "Delete", "KeyA"}

\* what the free identifier `name` evaluates to: nothing binds it outside a
\* browser, and in a browser it is window.name, '' unless a page sets it
Unbound == "ReferenceError"
GlobalNames == {Unbound, ""}

----------------------------------------------------------------------------
(* JavaScript objects and strings *)

\* o[k] of a JavaScript object: Undefined when the key is absent
Get(o, k) == IF k \in DOMAIN o THEN o[k] ELSE Undefined

\* o[k] = v
Put(o, k, v) == [x \in DOMAIN o \cup {k} |-> IF x = k THEN v ELSE o[x]]

\* a || b on strings and undefined: undefined and '' are falsy
Or(a, b) == IF a = Undefined \/ a = "" THEN b ELSE a

\* o.text || '' : an absent text and the empty string both give ''
TextOrEmpty(o) == IF "text" \in DOMAIN o THEN o.text ELSE <<>>

\* String.prototype.trim: strips leading and trailing white space
RECURSIVE TrimStart(_)
TrimStart(s) == IF s # <<>> /\ Head(s) = " " THEN TrimStart(Tail(s)) ELSE s

RECURSIVE TrimEnd(_)
TrimEnd(s) ==
    IF s # <<>> /\ s[Len(s)] = " " THEN TrimEnd(SubSeq(s, 1, Len(s) - 1)) ELSE s

Trim(s) == TrimEnd(TrimStart(s))

----------------------------------------------------------------------------
(* The DOM element of a block *)

\* what the HTML serializer writes for one parsed token: a bare "&" in text
\* is written back escaped
SerializeToken(t) == IF t = "&" THEN "&amp;" ELSE t

\* element.innerHTML = s; element.innerHTML : the string is parsed and the
\* tree serialized again
SetInnerHTML(s) == [k \in 1..Len(s) |-> SerializeToken(s[k])]

IsTag(t) == t = "<br>"

\* element.textContent of an element whose markup is m: the text without tags
TextContent(m) == SelectSeq(m, LAMBDA t : ~IsTag(t))

\* this._CSS, the class names
CSS_wrapper == "ce-paragraph"
CSS_block == "cdx-block"

CSS_alignment ==
    [a \in Alignments |-> CASE a = "left" -> "ce-paragraph--left"
                            [] a = "center" -> "ce-paragraph--center"
                            [] a = "right" -> "ce-paragraph--right"
                            [] a = "justify" -> "ce-paragraph--justify"]

\* the token classList.add / classList.toggle receive for
\* this._CSS.alignment[a]: an absent key gives undefined, which the DOM
\* turns into the token "undefined"
AlignmentClass(a) == IF a \in Alignments THEN CSS_alignment[a] ELSE "undefined"

AlignmentClasses == {CSS_alignment[a] : a \in Alignments}

\* classList.toggle(token, force)
ClassToggle(cl, token, force) == IF force THEN cl \cup {token} ELSE cl \ {token}

----------------------------------------------------------------------------
(* Host inputs *)

EmptyObject == [k \in {} |-> Undefined]

\* config.defaultAlignment, when the host configures one
DefaultAlignments == {"center"}

Configs ==
    {EmptyObject}
    \cup {[defaultAlignment |-> a] : a \in DefaultAlignments}
    \cup {[preserveBlank |-> p] : p \in BOOLEAN}
    \cup {[defaultAlignment |-> a, preserveBlank |-> p] :
            a \in DefaultAlignments, p \in BOOLEAN}

\* params.data with a text among texts: {} for a new block, else saved or
\* foreign data
HostObjects(texts) ==
    {EmptyObject}
    \cup {[text |-> t] : t \in texts}
    \cup {[alignment |-> a] : a \in HostAlignments}
    \cup {[text |-> t, alignment |-> a] : t \in texts, a \in HostAlignments}

----------------------------------------------------------------------------
(* Construction *)

\* the object literal the constructor builds first
ConstructorData(data, cfg) ==
    [text |-> TextOrEmpty(data),
     alignment |-> Or(Or(Get(data, "alignment"), Get(cfg, "defaultAlignment")),
                      DEFAULT_ALIGNMENT)]

\* drawView(): the classes of the new element
drawView(d) == {CSS_wrapper, CSS_block, AlignmentClass(d.alignment)}

\* this._preserveBlank
preserveBlank(cfg) ==
    IF "preserveBlank" \in DOMAIN cfg THEN cfg.preserveBlank ELSE FALSE

\* the settings controls before renderSettings() was ever called; active
\* are the buttons of Paragraph that carry the active class (the controls of
\* ParagraphEx are plain values, see renderSettingsEx)
NoSettings == [rendered |-> FALSE, active |-> {}]

\* the record of an operation on block i with argument arg that returns
\* nothing
Did(op, i, arg) == [op |-> op, block |-> i, arg |-> arg, ret |-> Undefined]

\* an object as the state keeps it: without its text property, which the
\* element's markup stands for (see this._data below)
Stored(o) == [k \in DOMAIN o \ {"text"} |-> o[k]]

\* the state the constructor leaves: the element is drawn from the literal,
\* then `this.data = data` makes this._data the host's object and fills the
\* element from it
Constructed(n, configs, modes, texts) ==
    /\ variant \in {"ex", "dom"}
    /\ blocks = 1..n
    /\ config \in configs
    /\ readOnly \in modes
    /\ \E data \in HostObjects(texts) :
         /\ hostData = Stored(data)
         /\ ownData = [i \in blocks |-> EmptyObject]
         /\ classList = [i \in blocks |-> drawView(ConstructorData(data, config))]
         /\ ref = [i \in blocks |-> "host"]
         /\ innerHTML = [i \in blocks |-> SetInnerHTML(TextOrEmpty(data))]
    /\ settings = [i \in blocks |-> NoSettings]
    /\ lastOp = Did("constructor", 0, Undefined)

\* the configurations that leave preserveBlank out
PlainConfigs == {c \in Configs : "preserveBlank" \notin DOMAIN c}

Init == Constructed(1, PlainConfigs, {FALSE}, Strings)

----------------------------------------------------------------------------
(* this._data *)

\* The text property of this._data is a cache of the element's markup:
\* get data() overwrites it with innerHTML before anything reads it, and
\* set data() reads it only from the object it was just handed.  The stored
\* objects therefore keep their other properties only, and the text lives in
\* innerHTML.

\* the object this._data refers to
Data(i) == IF ref[i] = "host" THEN hostData ELSE ownData[i]

\* get data(): this._data with the element's markup as its text
GetData(i) == Put(Data(i), "text", innerHTML[i])

\* the handler changes this._data in place: it stays the same object, now d
Store(i, d) ==
    /\ hostData' = IF ref[i] = "host" THEN Stored(d) ELSE hostData
    /\ ownData' = IF ref[i] = "own" THEN [ownData EXCEPT ![i] = Stored(d)]
                                      ELSE ownData
    /\ ref' = ref

\* set data(literal): this._data becomes the literal and the element is
\* filled from its text.  The host's object stays in the state for as long
\* as some block refers to it; after that no method can read or write it.
SetData(i, literal) ==
    /\ hostData' = IF \E j \in blocks \ {i} : ref[j] = "host" THEN hostData
                                                             ELSE EmptyObject
    /\ ownData' = [ownData EXCEPT ![i] = Stored(literal)]
    /\ ref' = [ref EXCEPT ![i] = "own"]
    /\ innerHTML' = [innerHTML EXCEPT ![i] = SetInnerHTML(TextOrEmpty(literal))]

\* what save(this._element) returns
save(i) == [text |-> innerHTML[i], alignment |-> Get(GetData(i), "alignment")]

----------------------------------------------------------------------------
(* Operations common to both variants *)

\* the user types or deletes in the editable element; the browser leaves
\* any markup m behind (a stray <br> included)
UserEdit(i, m) ==
    /\ ~readOnly
    /\ innerHTML' = [innerHTML EXCEPT ![i] = m]
    /\ lastOp' = Did("edit", i, m)
    /\ UNCHANGED <<variant, blocks, config, readOnly, hostData, ownData, ref,
                   classList, settings>>

\* onKeyUp as it would be if it handled Backspace alone
onKeyUp_BackspaceOnly(i, code) ==
    /\ ~readOnly
    /\ innerHTML' =
         IF code # "Backspace" THEN innerHTML
         ELSE IF TextContent(innerHTML[i]) = <<>>
              THEN [innerHTML EXCEPT ![i] = <<>>]
              ELSE innerHTML
    /\ lastOp' = Did("onKeyUp", i, code)
    /\ UNCHANGED <<variant, blocks, config, readOnly, hostData, ownData, ref,
                   classList, settings>>

\* onKeyUp(e): the listener is attached only when the block is not read-only
onKeyUp(i, code) ==
    /\ ~readOnly
    /\ innerHTML' =
         IF code # "Backspace" /\ code # "Delete" THEN innerHTML
         ELSE IF TextContent(innerHTML[i]) = <<>>
              THEN [innerHTML EXCEPT ![i] = <<>>]
              ELSE innerHTML
    /\ lastOp' = Did("onKeyUp", i, code)
    /\ UNCHANGED <<variant, blocks, config, readOnly, hostData, ownData, ref,
                   classList, settings>>

\* merge as it would be if it put data.text in front of the block's text
merge_Prepend(i, text) ==
    /\ Len(innerHTML[i]) + Len(text) <= MaxLen
    /\ SetData(i, [text |-> text \o GetData(i).text,
                   alignment |-> Get(GetData(i), "alignment")])
    /\ lastOp' = Did("merge", i, text)
    /\ UNCHANGED <<variant, blocks, config, readOnly, classList, settings>>

\* merge(data) with data.text = text
merge(i, text) ==
    /\ Len(innerHTML[i]) + Len(text) <= MaxLen
    /\ SetData(i, [text |-> GetData(i).text \o text,
                   alignment |-> Get(GetData(i), "alignment")])
    /\ lastOp' = Did("merge", i, text)
    /\ UNCHANGED <<variant, blocks, config, readOnly, classList, settings>>

\* onPaste as it would be if it fell back to the block's alignment before
\* the configured one
onPaste_KeepAlignment(i, html, textAlign) ==
    /\ SetData(i, [text |-> html,
                   alignment |-> Or(Or(Or(textAlign, Get(GetData(i), "alignment")),
                                       Get(config, "defaultAlignment")),
                                    DEFAULT_ALIGNMENT)])
    /\ lastOp' = Did("onPaste", i, [html |-> html, textAlign |-> textAlign])
    /\ UNCHANGED <<variant, blocks, config, readOnly, classList, settings>>

\* onPaste(event): event.detail.data is an element whose innerHTML is html
\* and whose style.textAlign is textAlign
onPaste(i, html, textAlign) ==
    /\ SetData(i, [text |-> html,
                   alignment |-> Or(Or(textAlign, Get(config, "defaultAlignment")),
                                    DEFAULT_ALIGNMENT)])
    /\ lastOp' = Did("onPaste", i, [html |-> html, textAlign |-> textAlign])
    /\ UNCHANGED <<variant, blocks, config, readOnly, classList, settings>>

\* save(toolsContent) called by the host on the block's own element
Save(i) ==
    /\ Store(i, GetData(i))
    /\ lastOp' = Did("save", i, Undefined)
    /\ UNCHANGED <<variant, blocks, config, readOnly, innerHTML, classList,
                   settings>>

\* validate as it would be if it did not trim the text
validate_NoTrim(text) == ~(text = <<>> /\ ~preserveBlank(config))

\* what validate(savedData) returns for savedData.text = text
validate(text) == ~(Trim(text) = <<>> /\ ~preserveBlank(config))

Validate(i, text) ==
    /\ lastOp' = [op |-> "validate", block |-> i, arg |-> text,
                  ret |-> validate(text)]
    /\ UNCHANGED <<variant, blocks, config, readOnly, hostData, ownData, ref,
                   innerHTML, classList, settings>>

----------------------------------------------------------------------------
(* ParagraphEx, src/src/index.js: settings as a menu configuration *)

\* get currentAlignment(): the tune whose value is this._data.alignment, or
\* the string DEFAULT_ALIGNMENT when there is none.  A tune is modelled by
\* its value; the string has no `value` property.
currentAlignmentValue(d) ==
    IF Get(d, "alignment") \in Alignments THEN Get(d, "alignment") ELSE Undefined

\* renderSettings(): the values of the controls returned with isActive true
renderSettingsEx(i) ==
    {value \in Alignments : currentAlignmentValue(Data(i)) = value}

RenderSettingsEx(i) ==
    /\ variant = "ex"
    /\ settings' = [settings EXCEPT ![i].rendered = TRUE]
    /\ lastOp' = Did("renderSettings", i, Undefined)
    /\ UNCHANGED <<variant, blocks, config, readOnly, hostData, ownData, ref,
                   innerHTML, classList>>

\* setAlignment(alignment), where the free identifier `name` of its last
\* statement evaluates to name: a ReferenceError when nothing binds it,
\* window.name in a browser
setAlignment(i, alignment, name) ==
    /\ SetData(i, [text |-> GetData(i).text, alignment |-> alignment])
    /\ classList' =
         IF name = Unbound THEN classList
         ELSE [classList EXCEPT
                 ![i] = ClassToggle(@, AlignmentClass(name), name = alignment)]

\* onActivate of the control of alignment value
Activate(i, value, name) ==
    /\ variant = "ex"
    /\ settings[i].rendered
    /\ setAlignment(i, value, name)
    /\ lastOp' = Did("onActivate", i, value)
    /\ UNCHANGED <<variant, blocks, config, readOnly, settings>>

----------------------------------------------------------------------------
(* Paragraph, src/unnamed/part_000: settings as DOM buttons *)

\* renderSettings(): the names of the buttons created active
renderSettingsDom(i) ==
    {name \in Alignments :
        name = Or(Get(GetData(i), "alignment"), Get(config, "defaultAlignment"))}

RenderSettingsDom(i) ==
    /\ variant = "dom"
    /\ Store(i, GetData(i))
    /\ settings' = [settings EXCEPT
                      ![i] = [rendered |-> TRUE, active |-> renderSettingsDom(i)]]
    /\ lastOp' = Did("renderSettings", i, Undefined)
    /\ UNCHANGED <<variant, blocks, config, readOnly, innerHTML, classList>>

\* _toggleTune(tune): this._data after the call
toggleTune(i, tune) ==
    Put(GetData(i), "alignment",
        IF Get(GetData(i), "alignment") = tune
        THEN Get(config, "defaultAlignment")
        ELSE tune)

\* the click listener of the button of tune
Click(i, tune) ==
    /\ variant = "dom"
    /\ settings[i].rendered
    /\ Store(i, toggleTune(i, tune))
    /\ LET alignment == toggleTune(i, tune).alignment
       IN /\ settings' = [settings EXCEPT
                 ![i].active = {name \in Alignments : name = alignment}]
          /\ classList' = [classList EXCEPT
                 ![i] = (@ \ {CSS_alignment[name] :
                                name \in {n \in Alignments : n # alignment}})
                        \cup {CSS_alignment[name] :
                                name \in {n \in Alignments : n = alignment}}]
    /\ lastOp' = Did("click", i, tune)
    /\ UNCHANGED <<variant, blocks, config, readOnly, innerHTML>>

----------------------------------------------------------------------------
(* Specifications *)

\* what the host and the user can do with block i, with the markup of edits
\* and pastes among markups and the text of merged data among texts
Step(i, markups, texts) ==
    \/ \E m \in markups : UserEdit(i, m)
    \/ \E code \in KeyCodes : onKeyUp(i, code)
    \/ \E text \in texts : merge(i, text)
    \/ \E html \in markups, textAlign \in TextAligns :
          onPaste(i, html, textAlign)
    \/ Save(i)
    \/ RenderSettingsEx(i)
    \/ \E value \in Alignments, name \in GlobalNames : Activate(i, value, name)
    \/ RenderSettingsDom(i)
    \/ \E tune \in Alignments : Click(i, tune)

Next == \E i \in blocks : Step(i, EditedMarkups, Strings)

\* one editable block, preserveBlank not configured; validate, which reads
\* nothing else and writes nothing, is left to SpecEdit
Spec == Init /\ [][Next]_vars

\* one block, editable or read-only, under every configuration, that is
\* edited, saved and validated
InitEdit == Constructed(1, Configs, BOOLEAN, Strings)

NextEdit ==
    \E i \in blocks :
        \/ \E m \in EditedMarkups : UserEdit(i, m)
        \/ \E code \in KeyCodes : onKeyUp(i, code)
        \/ Save(i)
        \/ \E text \in SavedTexts : Validate(i, text)

SpecEdit == InitEdit /\ [][NextEdit]_vars

\* two editable blocks constructed from one data object; the host then works
\* with the first and the second is looked at
InitShared == Constructed(2, PlainConfigs, {FALSE}, SharedStrings)

NextShared == Step(1, SharedMarkups, SharedStrings)

SpecShared == InitShared /\ [][NextShared]_vars

----------------------------------------------------------------------------
(* Claims *)

\* the default alignment of the block: config.defaultAlignment when
\* configured, 'left' otherwise
DefaultAlignment ==
    IF "defaultAlignment" \in DOMAIN config THEN config.defaultAlignment
                                            ELSE "left"

\* the alignment modifier classes on the root element of block i
ModifierClasses(i) == classList[i] \cap AlignmentClasses

\* the controls of block i in the active visual state
ActiveControls(i) ==
    IF variant = "dom" THEN settings[i].active ELSE renderSettingsEx(i)

\* C1: a block constructed with data = {} saves text "" and the default
\* alignment
C1_EmptyDataSavesDefaults ==
    \A i \in blocks :
        (lastOp.op = "constructor" /\ hostData = EmptyObject
            /\ innerHTML[i] = <<>>)
        => /\ save(i).text = <<>>
           /\ save(i).alignment = DefaultAlignment

\* C2: the alignment save() returns is always one of the four alignments
C2_AlignmentIsEnumerated ==
    \A i \in blocks : save(i).alignment \in Alignments

\* C3: in ParagraphEx, activating the control of alignment a makes save()
\* return a and leaves the root element with the modifier class of a only
C3_ActivateSetsAlignmentAndClass ==
    [][\A i \in blocks, value \in Alignments, name \in GlobalNames :
          Activate(i, value, name)
          => /\ (save(i).alignment)' = value
             /\ ModifierClasses(i)' = {CSS_alignment[value]}]_vars

\* C4: after an activation of an alignment control exactly one control is
\* active and the root element carries exactly one modifier class, in both
\* variants
C4_OneActiveOneClass ==
    [][\A i \in blocks :
          ((\E value \in Alignments, name \in GlobalNames :
               Activate(i, value, name))
           \/ (\E tune \in Alignments : Click(i, tune)))
          => /\ Cardinality(ActiveControls(i)') = 1
             /\ Cardinality(ModifierClasses(i)') = 1]_vars

\* C5: an operation on one block leaves what save() returns for another
\* block constructed from the same data object unchanged
C5_NoSharedState ==
    [][\A i \in blocks, j \in blocks :
          (i # j /\ lastOp'.block = i) => save(j)' = save(j)]_vars

\* C6: in Paragraph, a click on the active control resets the alignment to
\* the default alignment, a click on another control sets that control's
\* alignment
C6_ClickActiveResetsToDefault ==
    [][\A i \in blocks, tune \in Alignments :
          Click(i, tune)
          => (save(i).alignment)' =
                IF save(i).alignment = tune THEN DefaultAlignment ELSE tune]_vars

\* text.trim() === '': the text holds white space only
IsBlank(text) == \A k \in 1..Len(text) : text[k] = " "

\* C7: validate returns false exactly when the trimmed text is empty and
\* preserveBlank is false or not configured, and changes nothing of the block
C7_ValidateRejectsBlankOnly ==
    [][lastOp'.op = "validate"
          => /\ lastOp'.ret \in BOOLEAN
             /\ (lastOp'.ret = FALSE) <=>
                  (IsBlank(lastOp'.arg) /\ ~("preserveBlank" \in DOMAIN config
                                               /\ config.preserveBlank))
             /\ UNCHANGED <<variant, blocks, config, readOnly, hostData,
                            ownData, ref, innerHTML, classList, settings>>]_vars

C7_Witness ==
    /\ lastOp.op = "validate"
    /\ lastOp.arg = <<" ", " ">>
    /\ lastOp.ret = FALSE
    /\ "preserveBlank" \in DOMAIN config
    /\ innerHTML[1] # <<>>

\* C8 as stated: merge makes the saved text the current markup followed by
\* data.text and keeps the alignment
C8_MergeConcatenates ==
    [][\A i \in blocks :
          (lastOp'.op = "merge" /\ lastOp'.block = i)
          => /\ (save(i).text)' = save(i).text \o lastOp'.arg
             /\ (save(i).alignment)' = save(i).alignment]_vars

\* markup the serializer writes back unchanged
IsSerialized(text) == \A k \in 1..Len(text) : text[k] # "&"

\* the text with every bare "&" escaped
Escaped(text) ==
    [k \in 1..Len(text) |-> IF text[k] = "&" THEN "&amp;" ELSE text[k]]

\* C8 amended: merge makes the saved text the current markup followed by
\* data.text as the element serializes it, which is data.text itself when
\* that is serialized markup, and keeps the alignment
C8_MergeConcatenatesSerialized ==
    [][\A i \in blocks :
          (lastOp'.op = "merge" /\ lastOp'.block = i)
          => /\ (save(i).text)' = save(i).text \o Escaped(lastOp'.arg)
             /\ IsSerialized(lastOp'.arg)
                  => (save(i).text)' = save(i).text \o lastOp'.arg
             /\ (save(i).alignment)' = save(i).alignment]_vars

C8_Witness ==
    /\ lastOp.op = "merge"
    /\ lastOp.arg = <<"&">>
    /\ save(1).text = <<"<br>", "&amp;">>
    /\ save(1).alignment = "right"

\* C9: onPaste replaces the text by the pasted element's markup and sets the
\* alignment to the element's text-align, or to the default alignment when
\* the element has none
C9_PasteReplacesTextAndAlignment ==
    lastOp.op = "onPaste"
    => LET i == lastOp.block
       IN /\ save(i).text = lastOp.arg.html
          /\ save(i).alignment =
                IF lastOp.arg.textAlign # "" THEN lastOp.arg.textAlign
                                             ELSE DefaultAlignment

C9_Witness ==
    /\ lastOp.op = "onPaste"
    /\ lastOp.arg = [html |-> <<"a">>, textAlign |-> ""]
    /\ innerHTML[1] = <<"a">>
    /\ save(1).alignment = "center"
    /\ ModifierClasses(1) = {"ce-paragraph--right"}

\* the element shows no text: its markup holds tags only
ShowsNoText(m) == \A k \in 1..Len(m) : m[k] = "<br>"

\* C10: a key-up of Backspace or Delete on an element that shows no text
\* empties the markup; any other key-up leaves the markup as it is
C10_DeletionKeyClearsMarkup ==
    [][\A i \in blocks :
          (lastOp'.op = "onKeyUp" /\ lastOp'.block = i)
          => /\ ~readOnly
             /\ innerHTML'[i] =
                   IF lastOp'.arg \in {"Backspace", "Delete"}
                      /\ ShowsNoText(innerHTML[i])
                   THEN <<>>
                   ELSE innerHTML[i]]_vars

C10_Witness ==
    /\ lastOp.op = "onKeyUp"
    /\ lastOp.arg = "Delete"
    /\ ~readOnly
    /\ innerHTML[1] = <<>>
    /\ save(1).alignment = "right"

\* the modifier classes that correspond to alignment a: its class when a is
\* one of the four alignments, none otherwise
ClassesOf(a) == IF a \in Alignments THEN {CSS_alignment[a]} ELSE {}

\* C11: in every reachable state the alignment modifier classes on the root
\* element are exactly the class of the alignment save() returns, in both
\* variants
C11_ViewMatchesAlignment ==
    \A i \in blocks : ModifierClasses(i) = ClassesOf(save(i).alignment)

\* C12: in ParagraphEx renderSettings() always returns exactly one control
\* with isActive true, the control of 'left' when the stored alignment is
\* that of no control
C12_OneControlActive ==
    \A i \in blocks :
        variant = "ex"
        => /\ Cardinality(renderSettingsEx(i)) = 1
           /\ Get(Data(i), "alignment") \notin Alignments
                => renderSettingsEx(i) = {"left"}

====
